---- MODULE Spec2Model ----
(***************************************************************************)
(* RedString (src/src/lib.rs): a growable UTF-8 string whose bytes live in  *)
(* a Vec<u8, RubyAllocator>.  The model keeps the Vec's pointer, capacity,  *)
(* length and memory, the allocator's live blocks and its log of            *)
(* deallocate calls, and the outcome of the last two calls on the buffer.   *)
(***************************************************************************)
EXTENDS Integers, Sequences, FiniteSets, TLC

(* ---------------------------- bounds ----------------------------------- *)
\* content is kept to at most MaxLen bytes (guard of the growing operations)
MaxLen == 6
\* with_capacity(n) is called with n in 0..MaxInitCap
MaxInitCap == 2
\* from_str(s) is called with s of at most MaxStr bytes
MaxStr == 4
\* push_str(s) and insert_str(idx, s) are called with s of at most MaxArg bytes
MaxArg == 3
\* pop() is called at most MaxEmptyPops times in a row on an empty buffer
MaxEmptyPops == 2

\* U+0061 'a', U+00E9, U+20AC, U+1F600: one scalar of each encoded width
Scalars == {97, 233, 8364, 128512}

\* a byte of the block that the Vec counts as uninitialised ([len, cap))
Junk == -1
\* Option::None / no value returned
None == -1
\* the dangling pointer of a Vec that has no block
NoBlock == 0

(* ---------------------------- UTF-8 ------------------------------------ *)
\* char::len_utf8
len_utf8(c) ==
  IF c < 128 THEN 1 ELSE IF c < 2048 THEN 2 ELSE IF c < 65536 THEN 3 ELSE 4

\* char::encode_utf8(..).as_bytes()
encode_utf8(c) ==
  IF c < 128 THEN << c >>
  ELSE IF c < 2048 THEN << 192 + (c \div 64), 128 + (c % 64) >>
  ELSE IF c < 65536 THEN
    << 224 + (c \div 4096), 128 + ((c \div 64) % 64), 128 + (c % 64) >>
  ELSE << 240 + (c \div 262144), 128 + ((c \div 4096) % 64),
          128 + ((c \div 64) % 64), 128 + (c % 64) >>

\* core::str::utf8_is_cont_byte: 10xxxxxx
utf8_is_cont_byte(b) == b >= 128 /\ b < 192

\* str::is_char_boundary, as used by the slice self[idx..]
is_char_boundary(s, idx) ==
  IF idx = 0 THEN TRUE
  ELSE IF idx >= Len(s) THEN idx = Len(s)
  ELSE ~utf8_is_cont_byte(s[idx + 1])

\* core::str::next_code_point: the scalar that starts at the front of s
next_code_point(s) ==
  LET x == s[1] IN
  IF x < 128 THEN x
  ELSE LET init == x % 32
           y == s[2] % 64
       IN IF x < 224 THEN init * 64 + y
          ELSE LET y_z == y * 64 + (s[3] % 64)
               IN IF x < 240 THEN init * 4096 + y_z
                  ELSE (init % 8) * 262144 + y_z * 64 + (s[4] % 64)

\* core::str::next_code_point_reverse: the scalar that ends at the back of s
next_code_point_reverse(s) ==
  LET n == Len(s)
      w == s[n]
  IN IF w < 128 THEN w
     ELSE LET z == s[n - 1] IN
          IF ~utf8_is_cont_byte(z) THEN (z % 32) * 64 + (w % 64)
          ELSE LET y == s[n - 2] IN
               IF ~utf8_is_cont_byte(y)
               THEN ((y % 16) * 64 + (z % 64)) * 64 + (w % 64)
               ELSE LET x == s[n - 3] IN
                    (((x % 8) * 64 + (y % 64)) * 64 + (z % 64)) * 64 + (w % 64)

\* Width announced by a lead byte (0 for a byte that cannot lead)
LeadWidth(b) ==
  IF b < 128 THEN 1
  ELSE IF b >= 194 /\ b < 224 THEN 2
  ELSE IF b >= 224 /\ b < 240 THEN 3
  ELSE IF b >= 240 /\ b < 245 THEN 4
  ELSE 0

\* A Unicode scalar value
IsScalar(c) == c >= 0 /\ c <= 1114111 /\ ~(c >= 55296 /\ c <= 57343)

\* s is a complete UTF-8 encoding of a sequence of scalar values
\* (the contract of str that from_utf8_unchecked assumes)
RECURSIVE ValidUtf8(_)
ValidUtf8(s) ==
  IF s = << >> THEN TRUE
  ELSE LET w == LeadWidth(s[1]) IN
       /\ w > 0
       /\ Len(s) >= w
       /\ \A i \in 2..w : utf8_is_cont_byte(s[i])
       /\ LET c == next_code_point(SubSeq(s, 1, w)) IN
            /\ IsScalar(c)
            /\ encode_utf8(c) = SubSeq(s, 1, w)
       /\ ValidUtf8(SubSeq(s, w + 1, Len(s)))

\* The valid strings of at most n bytes over Scalars
RECURSIVE Strs(_)
Strs(n) ==
  {<< >>} \cup
  UNION { { encode_utf8(c) \o s : s \in Strs(n - len_utf8(c)) } :
          c \in { d \in Scalars : len_utf8(d) <= n } }

\* The arguments of from_str, and those of push_str and insert_str
InitStrs == Strs(MaxStr)
StrArgs == Strs(MaxArg)

(* ---------------------- allocator and Vec ------------------------------ *)
\* The value x the operators below work on is the Vec together with the
\* allocator's books:
\*   ptr, cap, len   the Vec's pointer, capacity and length
\*   mem             the cap bytes of the block (Junk where uninitialised)
\*   live            the blocks allocate returned and deallocate has not seen
\*   log             the blocks passed to deallocate, in call order

\* Smallest capacity a growing Vec<u8> takes (RawVec::MIN_NON_ZERO_CAP)
MIN_NON_ZERO_CAP == 8

Max(a, b) == IF a >= b THEN a ELSE b

\* The block ruby_xmalloc hands out next: one never handed out before
NewBlock(x) == Cardinality(x.live) + Len(x.log) + 1

\* RubyAllocator::allocate(layout), when ruby_xmalloc returns
allocate(x, size) == [x EXCEPT !.live = @ \cup {NewBlock(x)}]

\* RubyAllocator::deallocate(ptr, _): ruby_xfree
deallocate(x, p) == [x EXCEPT !.live = @ \ {p}, !.log = Append(@, p)]

\* size bytes nobody has written
Uninit(size) == [i \in 1..size |-> Junk]

\* Vec::new_in(RubyAllocator {})
new_in ==
  [ptr |-> NoBlock, cap |-> 0, len |-> 0, mem |-> << >>, live |-> {}, log |-> << >>]

\* Vec::with_capacity_in(capacity, RubyAllocator {})
with_capacity_in(capacity) ==
  IF capacity = 0 THEN new_in
  ELSE [allocate(new_in, capacity) EXCEPT
          !.ptr = NewBlock(new_in), !.cap = capacity, !.mem = Uninit(capacity)]

\* RawVec::grow_amortized: the capacity a growth to required bytes takes
grow_amortized(cap, required) == Max(MIN_NON_ZERO_CAP, Max(cap * 2, required))

\* (mutation of needs_to_grow: grows already when the bytes just fit)
needs_to_grow_eagerly(len, cap, additional) == additional >= cap - len

\* (mutation of needs_to_grow: compares with the capacity, not with the room)
needs_to_grow_ignoring_len(len, cap, additional) == additional > cap

\* Vec::reserve's test: additional bytes do not fit in cap - len
needs_to_grow(len, cap, additional) == additional > cap - len

\* (mutation of reserve: the new capacity is booked before the allocator has
\* answered, and stays booked when it refuses)
reserve_books_first(x, additional, ok) ==
  IF ~needs_to_grow(x.len, x.cap, additional) THEN [x |-> x, alloc |-> "none"]
  ELSE LET nc == grow_amortized(x.cap, x.len + additional)
           moved == [allocate(x, nc) EXCEPT
                       !.ptr = NewBlock(x), !.cap = nc,
                       !.mem = x.mem \o Uninit(nc - x.cap)]
       IN IF ~ok THEN [x |-> [x EXCEPT !.cap = nc], alloc |-> "fail"]
          ELSE [x |-> IF x.cap = 0 THEN moved ELSE deallocate(moved, x.ptr),
                alloc |-> "ok"]

\* Vec::reserve(additional).  ok: the allocator returns a block.  Growth
\* goes through Allocator::grow, which RubyAllocator leaves at its default:
\* allocate the new block, copy, deallocate the old one.
reserve(x, additional, ok) ==
  IF ~needs_to_grow(x.len, x.cap, additional) THEN [x |-> x, alloc |-> "none"]
  ELSE IF ~ok THEN [x |-> x, alloc |-> "fail"]
  ELSE LET nc == grow_amortized(x.cap, x.len + additional)
           moved == [allocate(x, nc) EXCEPT
                       !.ptr = NewBlock(x), !.cap = nc,
                       !.mem = x.mem \o Uninit(nc - x.cap)]
       IN [x |-> IF x.cap = 0 THEN moved ELSE deallocate(moved, x.ptr),
           alloc |-> "ok"]

\* Vec::set_len(n); the bytes from n on count as uninitialised again
set_len(x, n) ==
  [x EXCEPT !.len = n,
            !.mem = [i \in 1..Len(x.mem) |-> IF i > n THEN Junk ELSE x.mem[i]]]

\* (mutation of copy_within: a byte-by-byte forward copy, which reads what
\* it has just written when the ranges overlap to the right)
copy_forward(mem, src, dst, count) ==
  [i \in 1..Len(mem) |->
     IF i > dst /\ i <= dst + count
     THEN IF dst > src THEN mem[src + ((i - dst - 1) % (dst - src)) + 1]
          ELSE mem[i - dst + src]
     ELSE mem[i]]

\* std::ptr::copy(p + src, p + dst, count) inside the block (memmove)
copy_within(mem, src, dst, count) ==
  [i \in 1..Len(mem) |->
     IF i > dst /\ i <= dst + count THEN mem[i - dst + src] ELSE mem[i]]

\* std::ptr::copy(bytes, p + dst, bytes.len())
copy_in(mem, bytes, dst) ==
  [i \in 1..Len(mem) |->
     IF i > dst /\ i <= dst + Len(bytes) THEN bytes[i - dst] ELSE mem[i]]

\* The bytes [off, off + count) lie inside a block of cap bytes
in_block(cap, off, count) == off >= 0 /\ count >= 0 /\ off + count <= cap

\* What a call leaves behind: the Vec and allocator x, how the call ended
\* (st), the value it returned (ret) and what the allocator did (alloc)
Res(x, st, ret, alloc) == [x |-> x, st |-> st, ret |-> ret, alloc |-> alloc]

\* (mutation of vec_push: the byte goes through the pointer read before the
\* growth, and is lost when the Vec moves to a new block)
vec_push_stale(x, byte, ok) ==
  LET r == IF x.len = x.cap THEN reserve(x, 1, ok) ELSE [x |-> x, alloc |-> "none"]
  IN IF r.alloc = "fail" THEN Res(r.x, "aborted", None, "fail")
     ELSE IF ~in_block(r.x.cap, x.len, 1)
     THEN Res([r.x EXCEPT !.len = x.len + 1], "ub", None, r.alloc)
     ELSE Res([r.x EXCEPT !.mem[x.len + 1] = IF r.alloc = "ok" THEN Junk ELSE byte,
                          !.len = x.len + 1],
              "live", None, r.alloc)

\* Vec::push(byte): grow by one when len = cap, write at len, add one to
\* len.  A failed allocation ends in handle_alloc_error.
vec_push(x, byte, ok) ==
  LET r == IF x.len = x.cap THEN reserve(x, 1, ok) ELSE [x |-> x, alloc |-> "none"]
  IN IF r.alloc = "fail" THEN Res(r.x, "aborted", None, "fail")
     ELSE IF ~in_block(r.x.cap, x.len, 1)
     THEN Res([r.x EXCEPT !.len = x.len + 1], "ub", None, r.alloc)
     ELSE Res(set_len([r.x EXCEPT !.mem[x.len + 1] = byte], x.len + 1),
              "live", None, r.alloc)

\* Vec::extend_from_slice(bytes): reserve, copy to the end, add to len.
\* A failed allocation ends in handle_alloc_error.
extend_from_slice(x, bytes, ok) ==
  LET amt == Len(bytes)
      r == reserve(x, amt, ok)
  IN IF r.alloc = "fail" THEN Res(r.x, "aborted", None, "fail")
     ELSE IF ~in_block(r.x.cap, x.len, amt)
     THEN Res([r.x EXCEPT !.len = x.len + amt], "ub", None, r.alloc)
     ELSE Res(set_len([r.x EXCEPT !.mem = copy_in(@, bytes, x.len)], x.len + amt),
              "live", None, r.alloc)

(* ---------------------------- RedString -------------------------------- *)
\* RedString::len
len(x) == x.len

\* RedString::as_str: the bytes [0, len) viewed as str, unchecked
as_str(x) == SubSeq(x.mem, 1, x.len)

\* RedString::new
new == new_in

\* RedString::with_capacity
with_capacity(capacity) == with_capacity_in(capacity)

\* (mutation of push: every scalar takes the one-byte path)
push_as_u8(x, c, ok) == vec_push(x, c % 256, ok)

\* RedString::push
push(x, c, ok) ==
  IF len_utf8(c) = 1 THEN vec_push(x, c % 256, ok)
  ELSE extend_from_slice(x, encode_utf8(c), ok)

\* RedString::push_str
push_str(x, s, ok) == extend_from_slice(x, s, ok)

\* (mutation of from_str: the capacity is reserved, the bytes are not copied)
from_str_reserving(s) == with_capacity_in(Len(s))

\* RedString::from_str
from_str(s) == push_str(with_capacity_in(Len(s)), s, TRUE).x

\* (mutation of clear: the Vec is replaced by an empty one, its block freed)
clear_releasing(x) ==
  Res(IF x.cap = 0 THEN x
      ELSE [deallocate(x, x.ptr) EXCEPT
              !.ptr = NoBlock, !.cap = 0, !.len = 0, !.mem = << >>],
      "live", None, "none")

\* <RedString as std::fmt::Write>::write_str: push_str, then Ok(())
write_str(x, s, ok) == push_str(x, s, ok)

\* RedString::clear
clear(x) == Res(set_len(x, 0), "live", None, "none")

\* (mutation of insert_bytes: the bytes are moved in the block as it is, the
\* reservation comes after)
insert_bytes_reserving_late(x, idx, bytes, ok, checked) ==
  LET amt == Len(bytes)
      r == reserve(x, amt, ok)
  IN IF idx > x.len
     THEN Res(x, IF checked THEN "panicked" ELSE "ub", None, "none")
     ELSE IF ~in_block(x.cap, idx + amt, x.len - idx)
     THEN Res([x EXCEPT !.len = x.len + amt], "ub", None, "none")
     ELSE LET shifted == copy_within(x.mem, idx, idx + amt, x.len - idx)
              filled == copy_in(shifted, bytes, idx)
          IN Res(set_len([r.x EXCEPT !.mem = filled], x.len + amt),
                 "live", None, r.alloc)

\* RedString::insert_bytes.  checked: the build traps the overflow of
\* len - idx (debug assertions); otherwise the count wraps and the copy runs
\* outside the block.
insert_bytes(x, idx, bytes, ok, checked) ==
  LET amt == Len(bytes)
      r == reserve(x, amt, ok)
  IN IF r.alloc = "fail" THEN Res(r.x, "aborted", None, "fail")
     ELSE IF idx > x.len
     THEN Res(r.x, IF checked THEN "panicked" ELSE "ub", None, r.alloc)
     ELSE IF ~in_block(r.x.cap, idx + amt, x.len - idx)
     THEN Res([r.x EXCEPT !.len = x.len + amt], "ub", None, r.alloc)
     ELSE LET shifted == copy_within(r.x.mem, idx, idx + amt, x.len - idx)
              filled == copy_in(shifted, bytes, idx)
          IN Res(set_len([r.x EXCEPT !.mem = filled], x.len + amt),
                 "live", None, r.alloc)

\* RedString::insert
insert(x, idx, c, ok, checked) == insert_bytes(x, idx, encode_utf8(c), ok, checked)

\* RedString::insert_str
insert_str(x, idx, s, ok, checked) == insert_bytes(x, idx, s, ok, checked)

\* (mutation of remove_char: the gap closed is one byte wide)
remove_byte(x, idx, ch) ==
  LET next == idx + 1
      closed == copy_within(x.mem, next, idx, x.len - next)
  IN Res(set_len([x EXCEPT !.mem = closed], x.len - (next - idx)),
         "live", ch, "none")

\* (mutation of remove_char: the length shrinks, the suffix is not moved)
remove_char_unshifted(x, idx, ch) ==
  Res(set_len(x, x.len - len_utf8(ch)), "live", ch, "none")

\* RedString::remove, from `let next`: close the gap the scalar ch leaves at
\* idx and return ch
remove_char(x, idx, ch) ==
  LET next == idx + len_utf8(ch)
      closed == copy_within(x.mem, next, idx, x.len - next)
  IN Res(set_len([x EXCEPT !.mem = closed], x.len - (next - idx)),
         "live", ch, "none")

\* (mutation of remove: nothing to remove at the end is no error)
remove_lenient(x, idx) ==
  LET s == as_str(x) IN
  IF ~is_char_boundary(s, idx) THEN Res(x, "panicked", None, "none")
  ELSE IF idx = Len(s) THEN Res(x, "live", None, "none")
  ELSE IF ~ValidUtf8(s) THEN Res(x, "ub", None, "none")
  ELSE remove_char(x, idx, next_code_point(SubSeq(s, idx + 1, Len(s))))

\* RedString::remove.  The slice self[idx..] panics unless idx is a char
\* boundary of the bytes, an empty slice has no first char and panics; to
\* decode bytes that are not UTF-8 is undefined behaviour.
remove(x, idx) ==
  LET s == as_str(x) IN
  IF ~is_char_boundary(s, idx) THEN Res(x, "panicked", None, "none")
  ELSE IF idx = Len(s) THEN Res(x, "panicked", None, "none")
  ELSE IF ~ValidUtf8(s) THEN Res(x, "ub", None, "none")
  ELSE remove_char(x, idx, next_code_point(SubSeq(s, idx + 1, Len(s))))

\* (mutation of pop: an empty buffer is an error, as it is for remove)
pop_strict(x) ==
  LET s == as_str(x) IN
  IF ~ValidUtf8(s) THEN Res(x, "ub", None, "none")
  ELSE IF s = << >> THEN Res(x, "panicked", None, "none")
  ELSE LET ch == next_code_point_reverse(s)
       IN Res(set_len(x, x.len - len_utf8(ch)), "live", ch, "none")

\* (mutation of pop: the scalar is taken from the front of the iterator, the
\* .rev() is missing)
pop_front(x) ==
  LET s == as_str(x) IN
  IF ~ValidUtf8(s) THEN Res(x, "ub", None, "none")
  ELSE IF s = << >> THEN Res(x, "live", None, "none")
  ELSE LET ch == next_code_point(s)
       IN Res(set_len(x, x.len - len_utf8(ch)), "live", ch, "none")

\* (mutation of pop: the length drops by one byte)
pop_byte(x) ==
  LET s == as_str(x) IN
  IF ~ValidUtf8(s) THEN Res(x, "ub", None, "none")
  ELSE IF s = << >> THEN Res(x, "live", None, "none")
  ELSE Res(set_len(x, x.len - 1), "live", next_code_point_reverse(s), "none")

\* RedString::pop
pop(x) ==
  LET s == as_str(x) IN
  IF ~ValidUtf8(s) THEN Res(x, "ub", None, "none")
  ELSE IF s = << >> THEN Res(x, "live", None, "none")
  ELSE LET ch == next_code_point_reverse(s)
       IN Res(set_len(x, x.len - len_utf8(ch)), "live", ch, "none")

\* rb_utf8_str_new(ptr, len): a new Ruby string holding a copy of the len
\* bytes at ptr; the Ruby string does not take over the block at ptr
rb_utf8_str_new(x) == [made |-> TRUE, bytes |-> as_str(x), adopts |-> FALSE]

\* (mutation of forget: the destructor runs after all)
forget_not(x) == IF x.cap = 0 THEN x ELSE deallocate(x, x.ptr)

\* std::mem::forget(self): the Vec's destructor never runs, nothing is
\* passed to deallocate
forget(x) == x

\* RedString::into_rstring
into_rstring(x) == Res(forget(x), "consumed", None, "none")

\* (mutation of drop: the pointer is handed back whether or not there is a
\* block behind it)
drop_unconditional(x) == Res(deallocate(x, x.ptr), "dropped", None, "none")

\* Drop of the Vec inside RedString: a block is handed back, if there is one
drop(x) ==
  Res(IF x.cap = 0 THEN x ELSE deallocate(x, x.ptr), "dropped", None, "none")

(* --------------------------- state machine ----------------------------- *)
VARIABLES
  buf,          \* the Vec of the RedString: [ptr, cap, len, mem]
  heap,         \* the allocator's books: [live, log]
  st,           \* "live", or how the buffer's life ended / what stopped it
  rstring,      \* the Ruby string into_rstring made
  last,         \* the last call: its name, arguments, result, state before
  prev,         \* the call before that, kept while the last call relates to it
  drain,        \* the run of pop() calls that ends with the last call
  boundaryOnly  \* every index passed so far was a char boundary <= len

vars == << buf, heap, st, rstring, last, prev, drain, boundaryOnly >>

\* buf and heap as the value the operators work on
Cur ==
  [ptr |-> buf.ptr, cap |-> buf.cap, len |-> buf.len, mem |-> buf.mem,
   live |-> heap.live, log |-> heap.log]

BufOf(x) == [ptr |-> x.ptr, cap |-> x.cap, len |-> x.len, mem |-> x.mem]
HeapOf(x) == [live |-> x.live, log |-> x.log]

NoRString == [made |-> FALSE, bytes |-> << >>, adopts |-> FALSE]

\* The record of a call
CallRec(op, idx, c, s, r, pre, bnd) ==
  [op |-> op, idx |-> idx, c |-> c, s |-> s, ret |-> r.ret, alloc |-> r.alloc,
   st |-> r.st, pre |-> pre, bnd |-> bnd]

\* What is kept of a call that the next call is to undo: its name, index
\* and scalar, the content before it, whether its index was a boundary
Earlier(call) ==
  [op |-> call.op, idx |-> call.idx, c |-> call.c, was |-> as_str(call.pre),
   bnd |-> call.bnd]

NoCall == [op |-> "none", idx |-> 0, c |-> None, was |-> << >>, bnd |-> TRUE]

\* The call op(idx) is the inverse of the call before it: pop() after
\* push(c), remove(idx) after insert(idx, c)
Inverse(op, idx, before) ==
  \/ op = "pop" /\ before.op = "push"
  \/ op = "remove" /\ before.op = "insert" /\ idx = before.idx

\* No pop() yet, or another call since
NoDrain == [from |-> << >>, rets |-> << >>]

\* The run of pop() calls after one more pop() has returned ret: the content
\* the run started from and what its calls returned, in order
Drained(ret) ==
  IF last.op = "pop" THEN [drain EXCEPT !.rets = Append(@, ret)]
  ELSE [from |-> as_str(Cur), rets |-> << ret >>]

\* The number of pop() calls in a row the empty buffer has answered
EmptyPops == Cardinality({ i \in DOMAIN drain.rets : drain.rets[i] = None })

\* The call op(idx) is one to compare with the call before it: its inverse,
\* or the first push(c) into a cleared buffer
Related(op, idx, before) ==
  \/ Inverse(op, idx, before)
  \/ op = "push" /\ before.op = "clear"

\* A constructor has returned x
Built(op, n, s, x) ==
  /\ buf = BufOf(x)
  /\ heap = HeapOf(x)
  /\ st = "live"
  /\ rstring = NoRString
  /\ last = CallRec(op, n, None, s, Res(x, "live", None, "none"), new, TRUE)
  /\ prev = NoCall
  /\ drain = NoDrain
  /\ boundaryOnly = TRUE

Init ==
  \/ Built("new", 0, << >>, new)
  \/ \E n \in 0..MaxInitCap : Built("with_capacity", n, << >>, with_capacity(n))
  \/ \E s \in InitStrs : Built("from_str", 0, s, from_str(s))

\* A call on the live buffer has ended as r
Ended(op, idx, c, s, r, bnd) ==
  /\ st = "live"
  /\ buf' = BufOf(r.x)
  /\ heap' = HeapOf(r.x)
  /\ st' = r.st
  /\ last' = CallRec(op, idx, c, s, r, Cur, bnd)
  /\ prev' = IF Related(op, idx, last) THEN Earlier(last) ELSE NoCall
  /\ drain' = IF op = "pop" THEN Drained(r.ret) ELSE NoDrain
  /\ boundaryOnly' = (boundaryOnly /\ bnd)

\* ... and it was not the conversion
Called(op, idx, c, s, r, bnd) ==
  /\ Ended(op, idx, c, s, r, bnd)
  /\ UNCHANGED rstring

\* The allocator's answers that make a difference to a call that adds amt
\* bytes: it is asked only when the Vec has to grow
Answers(amt) == IF needs_to_grow(buf.len, buf.cap, amt) THEN BOOLEAN ELSE {TRUE}

\* The builds that make a difference to an insertion at idx: the overflow
\* check matters only past the end
Builds(idx) == IF idx > buf.len THEN BOOLEAN ELSE {TRUE}

Push ==
  \E c \in Scalars : \E ok \in Answers(len_utf8(c)) :
    /\ buf.len + len_utf8(c) <= MaxLen
    /\ Called("push", 0, c, << >>, push(Cur, c, ok), TRUE)

PushStr ==
  \E s \in StrArgs : \E ok \in Answers(Len(s)) :
    /\ buf.len + Len(s) <= MaxLen
    /\ Called("push_str", 0, None, s, push_str(Cur, s, ok), TRUE)

WriteStr ==
  \E s \in StrArgs : \E ok \in Answers(Len(s)) :
    /\ buf.len + Len(s) <= MaxLen
    /\ Called("write_str", 0, None, s, write_str(Cur, s, ok), TRUE)

Clear == Called("clear", 0, None, << >>, clear(Cur), TRUE)

Insert ==
  \E idx \in 0..(buf.len + 1), c \in Scalars :
  \E ok \in Answers(len_utf8(c)), checked \in Builds(idx) :
    /\ buf.len + len_utf8(c) <= MaxLen
    /\ Called("insert", idx, c, << >>, insert(Cur, idx, c, ok, checked),
              idx <= buf.len /\ is_char_boundary(as_str(Cur), idx))

InsertStr ==
  \E idx \in 0..(buf.len + 1), s \in StrArgs :
  \E ok \in Answers(Len(s)), checked \in Builds(idx) :
    /\ buf.len + Len(s) <= MaxLen
    /\ Called("insert_str", idx, None, s, insert_str(Cur, idx, s, ok, checked),
              idx <= buf.len /\ is_char_boundary(as_str(Cur), idx))

Remove ==
  \E idx \in 0..(buf.len + 1) :
    Called("remove", idx, None, << >>, remove(Cur, idx),
           idx <= buf.len /\ is_char_boundary(as_str(Cur), idx))

Pop ==
  /\ buf.len > 0 \/ EmptyPops < MaxEmptyPops
  /\ Called("pop", 0, None, << >>, pop(Cur), TRUE)

IntoRString ==
  /\ Ended("into_rstring", 0, None, << >>, into_rstring(Cur), TRUE)
  /\ rstring' = rb_utf8_str_new(Cur)

Drop == Called("drop", 0, None, << >>, drop(Cur), TRUE)

Next ==
  \/ Push
  \/ PushStr
  \/ WriteStr
  \/ Clear
  \/ Insert
  \/ InsertStr
  \/ Remove
  \/ Pop
  \/ IntoRString
  \/ Drop

Spec == Init /\ [][Next]_vars

(* ------------------------------ claims --------------------------------- *)
\* The byte offsets of s that lie between two scalars, or at its start or
\* end, found by walking the scalars of a valid s from the front
RECURSIVE Boundaries(_)
Boundaries(s) ==
  IF s = << >> THEN {0}
  ELSE LET w == LeadWidth(s[1]) IN
       {0} \cup { w + b : b \in Boundaries(SubSeq(s, w + 1, Len(s))) }

\* How often block p was passed to deallocate
Times(p) == Cardinality({ i \in DOMAIN heap.log : heap.log[i] = p })

\* The content, length and capacity the last call found
Before == last.pre

\* The last call left the Vec and the allocator as it found them
Untouched == buf = BufOf(Before) /\ heap = HeapOf(Before)

Mutators == {"push", "push_str", "insert", "insert_str", "remove", "pop", "clear"}

\* C1: after every call of a run whose indices all were boundaries within
\* the content, the length is at most the capacity.
C1_LenWithinCap == boundaryOnly => buf.len <= buf.cap

\* C1 witness: a call has added bytes that did not fit the old capacity
C1_Witness ==
  /\ boundaryOnly
  /\ last.op \in {"push", "push_str", "insert", "insert_str"}
  /\ st = "live"
  /\ Before.cap > 0
  /\ buf.len > Before.cap

\* C2: after every call of a run whose indices all were scalar boundaries,
\* the bytes [0, len) are a complete UTF-8 encoding of a sequence of scalars.
C2_ContentValid == boundaryOnly => ValidUtf8(as_str(Cur))

\* C2 witness: a multi-byte scalar has been taken out from in front of
\* another multi-byte scalar
C2_Witness ==
  /\ boundaryOnly
  /\ last.op \in {"remove", "pop"}
  /\ st = "live"
  /\ last.ret # None
  /\ len_utf8(last.ret) > 1
  /\ buf.len > 1
  /\ \E i \in 1..buf.len : buf.mem[i] >= 128

\* C3: once a buffer with a block has been converted, that block is released
\* exactly once: either it has been passed to deallocate once, or the Ruby
\* string has taken it over and will release it.
C3_ReleasedExactlyOnce ==
  (st = "consumed" /\ buf.ptr # NoBlock) =>
    Times(buf.ptr) + (IF rstring.adopts THEN 1 ELSE 0) = 1

\* C4: a consumed buffer got there by into_rstring on a live buffer, no call
\* has followed, and neither the conversion nor anything after it passed the
\* block to deallocate or touched the Vec.
C4_ConsumedIsTerminal ==
  st = "consumed" =>
    /\ last.op = "into_rstring"
    /\ rstring.made
    /\ rstring.bytes = as_str(Before)
    /\ heap.log = Before.log
    /\ buf.ptr # NoBlock => Times(buf.ptr) = 0
    /\ Untouched

\* C4 witness: a populated buffer with a block has been converted
C4_Witness == st = "consumed" /\ buf.len > 0 /\ buf.ptr \in heap.live

\* C5: insert and insert_str with an index that is no boundary of the
\* content (inside a scalar, or past the end) abort and leave the buffer as
\* it was.
C5_BadIndexAborts ==
  (last.op \in {"insert", "insert_str"} /\ ~last.bnd /\ last.alloc # "fail") =>
    (st = "panicked" /\ Untouched)

\* C6: remove at the end of the content, past it, or inside a multi-byte
\* scalar panics, returns nothing and leaves the buffer as it was.
C6_RemoveAborts ==
  (/\ last.op = "remove"
   /\ \/ last.idx >= Before.len
      \/ ValidUtf8(as_str(Before)) /\ last.idx \notin Boundaries(as_str(Before)))
  => (st = "panicked" /\ last.ret = None /\ Untouched)

\* C6 witness: remove inside a multi-byte scalar of a valid content
C6_Witness ==
  /\ last.op = "remove"
  /\ ValidUtf8(as_str(Before))
  /\ last.idx < Before.len
  /\ last.idx \notin Boundaries(as_str(Before))

\* C7 as claimed: a refused allocation is returned to the caller, who goes
\* on with the buffer as it was.
C7_FailureReturned == last.alloc = "fail" => (st = "live" /\ Untouched)

\* C7 amended: a refused allocation during the growth of push, push_str,
\* insert or insert_str (or of write_str, which is push_str) ends the call
\* without a return to the caller, and
\* the buffer's length, capacity, content and block are as before the call.
C7_FailureAbortsUnchanged ==
  last.alloc = "fail" =>
    /\ last.op \in {"push", "push_str", "write_str", "insert", "insert_str"}
    /\ st = "aborted"
    /\ last.ret = None
    /\ Untouched

\* C7 witness: an insertion into a populated, full buffer was refused
C7_Witness ==
  /\ last.alloc = "fail"
  /\ last.op \in {"insert", "insert_str"}
  /\ Before.len > 0
  /\ Before.cap > 0

\* C8: pop on an empty buffer returns None, does not abort and leaves length,
\* capacity, content and block as they were.
C8_PopEmpty ==
  (last.op = "pop" /\ Before.len = 0) =>
    (st = "live" /\ last.ret = None /\ Untouched)

\* C8 witness: pop on a buffer that was emptied (it has a block)
C8_Witness == last.op = "pop" /\ Before.len = 0 /\ Before.cap > 0

\* C9: remove(idx) right after insert(idx, c), with idx a boundary of a
\* valid content, returns c and leaves the content and length as they were
\* before the insert.
C9_InsertRemove ==
  (last.op = "remove" /\ prev.op = "insert" /\ prev.bnd /\ ValidUtf8(prev.was)) =>
    /\ st = "live"
    /\ last.ret = prev.c
    /\ as_str(Cur) = prev.was
    /\ buf.len = Len(prev.was)

\* C9 witness: a four-byte scalar inserted between two scalars and removed
C9_Witness ==
  /\ last.op = "remove" /\ prev.op = "insert" /\ prev.bnd /\ ValidUtf8(prev.was)
  /\ len_utf8(prev.c) = 4
  /\ prev.idx > 0
  /\ prev.idx < Len(prev.was)

\* C10: pop() right after push(c) on a valid content returns Some(c) and
\* leaves the content and length as they were before the push.
C10_PushPop ==
  (last.op = "pop" /\ prev.op = "push" /\ ValidUtf8(prev.was)) =>
    /\ st = "live"
    /\ last.ret = prev.c
    /\ as_str(Cur) = prev.was
    /\ buf.len = Len(prev.was)

\* C10 witness: a three-byte scalar pushed behind a multi-byte one and popped
C10_Witness ==
  /\ last.op = "pop" /\ prev.op = "push" /\ ValidUtf8(prev.was)
  /\ len_utf8(prev.c) = 3
  /\ Len(prev.was) > 1
  /\ prev.was[Len(prev.was)] >= 128

\* C11: from_str(s) returns a buffer whose view is s and whose len() is the
\* byte length of s.
C11_FromStrRoundTrip ==
  last.op = "from_str" => (as_str(Cur) = last.s /\ len(Cur) = Len(last.s))

\* C11 witness: from_str of a string that holds a four-byte scalar
C11_Witness == last.op = "from_str" /\ Len(last.s) = 4 /\ last.s[1] >= 240

\* The bytes the last insertion was to put in
Inserted == IF last.op = "insert" THEN encode_utf8(last.c) ELSE last.s

\* C12: insert_str(idx, s) and insert(idx, c) at a boundary idx <= L of the
\* content X leave X[0,idx) s X[idx,L) as content and L + |s| as length.
C12_InsertSplices ==
  (last.op \in {"insert", "insert_str"} /\ last.bnd /\ last.alloc # "fail") =>
    LET X == as_str(Before) IN
    /\ st = "live"
    /\ as_str(Cur) = SubSeq(X, 1, last.idx) \o Inserted \o SubSeq(X, last.idx + 1, Len(X))
    /\ buf.len = Before.len + Len(Inserted)

\* C12 witness: bytes inserted in front of a longer suffix, between scalars
C12_Witness ==
  /\ last.op \in {"insert", "insert_str"} /\ last.bnd /\ last.alloc # "fail"
  /\ last.idx > 0
  /\ Len(Inserted) > 0
  /\ Before.len - last.idx > Len(Inserted)

\* C13: remove(idx) at a boundary idx < L of the valid content X returns the
\* scalar encoded at idx, in k bytes, and leaves X[0,idx) X[idx+k,L) as
\* content and L - k as length.
C13_RemoveCuts ==
  (/\ last.op = "remove"
   /\ ValidUtf8(as_str(Before))
   /\ last.idx < Before.len
   /\ last.idx \in Boundaries(as_str(Before)))
  => LET X == as_str(Before)
         k == LeadWidth(X[last.idx + 1])
     IN /\ st = "live"
        /\ last.ret # None
        /\ encode_utf8(last.ret) = SubSeq(X, last.idx + 1, last.idx + k)
        /\ as_str(Cur) = SubSeq(X, 1, last.idx) \o SubSeq(X, last.idx + k + 1, Len(X))
        /\ buf.len = Before.len - k

\* C13 witness: a multi-byte scalar removed from between two others
C13_Witness ==
  /\ last.op = "remove" /\ st = "live"
  /\ ValidUtf8(as_str(Before))
  /\ last.idx > 0
  /\ len_utf8(last.ret) > 1
  /\ last.idx + len_utf8(last.ret) < Before.len

\* The scalars a valid s encodes, in order
RECURSIVE Chars(_)
Chars(s) ==
  IF s = << >> THEN << >>
  ELSE LET w == LeadWidth(s[1]) IN
       << next_code_point(SubSeq(s, 1, w)) >> \o Chars(SubSeq(s, w + 1, Len(s)))

\* The encoding of a sequence of scalars
RECURSIVE Utf8(_)
Utf8(cs) == IF cs = << >> THEN << >> ELSE encode_utf8(Head(cs)) \o Utf8(Tail(cs))

\* C14: in a run of pop() calls on a buffer that holds n scalars, the i-th
\* call returns the i-th scalar from the back for i <= n and None after
\* that, and after each call the content is the scalars not yet returned,
\* unchanged, the length having dropped by the bytes of those returned.
C14_DrainInOrder ==
  (last.op = "pop" /\ ValidUtf8(drain.from)) =>
    LET cs == Chars(drain.from)
        n == Len(cs)
        k == Len(drain.rets)
        left == SubSeq(cs, 1, IF k < n THEN n - k ELSE 0)
    IN /\ st = "live"
       /\ \A i \in 1..k : drain.rets[i] = IF i <= n THEN cs[n - i + 1] ELSE None
       /\ as_str(Cur) = Utf8(left)
       /\ buf.len = Len(drain.from) - Len(Utf8(SubSeq(cs, Len(left) + 1, n)))

\* C14 witness: three scalars, one of them multi-byte, drained, and two more
\* pop() calls after that
C14_Witness ==
  /\ last.op = "pop" /\ ValidUtf8(drain.from)
  /\ Len(Chars(drain.from)) = 3
  /\ Len(drain.from) > 3
  /\ Len(drain.rets) = 5

\* C15: clear() sets the length to 0 and leaves the capacity, the block and
\* the allocator's books as they were; a push right after it that fits the
\* capacity asks the allocator for nothing and writes into the same block.
C15_ClearKeepsBlock ==
  /\ last.op = "clear" =>
       /\ st = "live"
       /\ buf.len = 0
       /\ buf.cap = Before.cap
       /\ buf.ptr = Before.ptr
       /\ heap = HeapOf(Before)
  /\ (last.op = "push" /\ prev.op = "clear" /\ len_utf8(last.c) <= Before.cap) =>
       /\ st = "live"
       /\ last.alloc = "none"
       /\ buf.cap = Before.cap
       /\ buf.ptr = Before.ptr
       /\ heap = HeapOf(Before)
       /\ as_str(Cur) = encode_utf8(last.c)

\* C15 witness: a populated buffer was cleared and a multi-byte scalar
\* pushed into the capacity it kept
C15_Witness ==
  /\ last.op = "push" /\ prev.op = "clear"
  /\ Len(prev.was) > 0
  /\ len_utf8(last.c) > 1
  /\ len_utf8(last.c) <= Before.cap
  /\ buf.ptr \in heap.live

\* C16: an insertion of amt bytes at idx <= L ends with a capacity of at
\* least L + amt, taken before the bytes were moved: the suffix read at
\* [idx, L), the suffix written at [idx + amt, L + amt) and the gap written
\* at [idx, idx + amt) all lie inside the block the buffer holds, and no
\* copy ran outside a block.
C16_InsertInsideBlock ==
  (last.op \in {"insert", "insert_str"} /\ last.idx <= Before.len
     /\ last.alloc # "fail") =>
    LET amt == Len(Inserted)
        L == Before.len
    IN /\ st = "live"
       /\ buf.cap >= L + amt
       /\ Len(buf.mem) = buf.cap
       /\ in_block(buf.cap, last.idx, L - last.idx)
       /\ in_block(buf.cap, last.idx + amt, L - last.idx)
       /\ in_block(buf.cap, last.idx, amt)
       /\ buf.cap > 0 => buf.ptr \in heap.live

\* C16 witness: an insertion between two scalars of a full buffer, which had
\* to move to a larger block
C16_Witness ==
  /\ last.op \in {"insert", "insert_str"}
  /\ last.alloc = "ok"
  /\ st = "live"
  /\ Before.cap > 0
  /\ last.idx > 0
  /\ last.idx < Before.len

\* The number of bytes the last call was to add
Added ==
  IF last.op = "push" THEN len_utf8(last.c)
  ELSE IF last.op = "push_str" THEN Len(last.s)
  ELSE Len(Inserted)

\* C17: push, push_str, insert, insert_str, remove and pop never lower the
\* capacity; remove and pop leave it as it was, and the other four change it
\* only when the bytes to add exceed capacity - length.
C17_CapacityKept ==
  last.op \in {"push", "push_str", "insert", "insert_str", "remove", "pop"} =>
    /\ buf.cap >= Before.cap
    /\ last.op \in {"remove", "pop"} => buf.cap = Before.cap
    /\ (last.op \notin {"remove", "pop"} /\ buf.cap # Before.cap) =>
         Added > Before.cap - Before.len

\* C17 witness: bytes were added that fill the capacity to the last byte
C17_Witness ==
  /\ last.op \in {"push", "push_str", "insert", "insert_str"}
  /\ st = "live"
  /\ Before.len > 0
  /\ Added > 0
  /\ Added = Before.cap - Before.len
  /\ buf.cap = Before.cap

\* C18: every block passed to deallocate came from allocate and was live
\* when the call that released it began, no block is released twice, the
\* buffer holds its one block and no other is live, and a buffer dropped
\* without conversion has released its last block exactly once.
C18_BlocksReleasedOnce ==
  /\ Cardinality(heap.live) <= 1
  /\ \A i \in DOMAIN heap.log :
       /\ heap.log[i] \in 1..(Cardinality(heap.live) + Len(heap.log))
       /\ heap.log[i] \notin heap.live
       /\ Times(heap.log[i]) = 1
  /\ \A i \in (Len(Before.log) + 1)..Len(heap.log) : heap.log[i] \in Before.live
  /\ st # "dropped" => heap.live = (IF buf.cap = 0 THEN {} ELSE {buf.ptr})
  /\ st = "dropped" =>
       /\ heap.live = {}
       /\ Before.cap > 0 => Times(Before.ptr) = 1
       /\ Before.cap = 0 => heap.log = Before.log

\* C18 witness: a buffer that had moved to a larger block was dropped
C18_Witness ==
  /\ st = "dropped"
  /\ Len(heap.log) = 2
  /\ Before.len > 0

\* What the content and length are after the scalar c has been appended to
\* the buffer x by push, by push_str and write_str of its encoding, and by
\* insert at the end
Appended(x, c) ==
  { << as_str(r.x), len(r.x), r.st >> :
      r \in { push(x, c, TRUE),
              push_str(x, encode_utf8(c), TRUE),
              write_str(x, encode_utf8(c), TRUE),
              insert(x, x.len, c, TRUE, TRUE) } }

\* The last call appended one scalar: the scalar
AppendedScalar ==
  IF last.op = "push" \/ (last.op = "insert" /\ last.idx = Before.len) THEN last.c
  ELSE IF last.op \in {"push_str", "write_str"} /\ last.s # << >> /\ ValidUtf8(last.s)
          /\ LeadWidth(last.s[1]) = Len(last.s)
  THEN next_code_point(last.s)
  ELSE None

\* C19: a scalar appended by push, by push_str or write_str of its encoding,
\* or by insert at the end leaves the same content and length whichever of
\* the four is called, the one-byte path of push included.
C19_AppendsAgree ==
  (AppendedScalar # None /\ last.alloc # "fail") =>
    Appended(Before, AppendedScalar) =
      { << as_str(Before) \o encode_utf8(AppendedScalar),
           Before.len + len_utf8(AppendedScalar), "live" >> }
    /\ << as_str(Cur), buf.len, st >> \in Appended(Before, AppendedScalar)

\* C19 witness: push took its one-byte path on a full, populated buffer
C19_Witness ==
  /\ last.op = "push"
  /\ len_utf8(last.c) = 1
  /\ last.alloc = "ok"
  /\ Before.len > 0
  /\ st = "live"

====
